---- MODULE Spec2Model ----
(***************************************************************************)
(* Model of pyo3-polars/src/types.rs: the conversions between the native   *)
(* polars values (Series, DataFrame, DataType, LazyFrame, Expr) and their  *)
(* host (Python) counterparts.                                             *)
(*                                                                         *)
(* Conventions.  An optional value (Rust Option, Python None) is a         *)
(* sequence of length at most one: <<>> is None and <<v>> is Some(v).      *)
(* A result is a record with a field "status" that is "ok", "err" or       *)
(* "panic".  The build modelled has every dtype-* feature enabled.         *)
(***************************************************************************)
EXTENDS Integers, Sequences, FiniteSets, TLC

VARIABLES
    host,      \* attributes the host Series class exposes (fixed per process)
    src,       \* the native series the process encodes
    heap,      \* descriptor boxes currently allocated by the sender
    payloads,  \* per exported data descriptor: who released its payload
    calls,     \* number of Series encode calls made so far
    enc,       \* the last Series encode call: its input, transport and result
    dec,       \* the last Series decode call
    dtop,      \* the last DataType encode / decode call
    tbl,       \* the last DataFrame decode call
    tenc,      \* the last DataFrame encode call
    pop        \* the last LazyFrame / Expr encode or decode call

vars == <<host, src, heap, payloads, calls, enc, dec, dtop, tbl, tenc, pop>>

----------------------------------------------------------------------------
(* Bounds of the model *)

MaxCalls == 2
MaxChunks == 2
MaxDepth == 1
MaxCols == 2

None == <<>>
Some(v) == <<v>>

----------------------------------------------------------------------------
(* polars_core::datatypes::CompatLevel as used by types.rs *)

\* CompatLevel::oldest(), used on the pyarrow path
CompatOldest == 0

\* CompatLevel::newest(), the value of unwrap_or(CompatLevel::newest())
CompatNewest == 1

\* the literal given to map_or when the host has no _newest_compat_level
DefaultCompatLevel == 1

\* the levels a host hook may report (one of them above the newest)
ReportedLevels == {0, 1, 2}

\* CompatLevel::with_level(level).unwrap_or(CompatLevel::newest())
WithLevelOrNewest(level) == IF level > CompatNewest THEN CompatNewest ELSE level

----------------------------------------------------------------------------
(* Series, chunks and arrow arrays *)

Names == {"x", "y"}

\* chunks of an Int64 series; <<>> is a null slot
IntChunks == { << <<1>>, <<2>> >>, << <<>>, <<4>> >> }

\* chunks of a String series
StrChunks == { << <<"a">>, <<>> >> }

ChunkSeqs(pool) == UNION { [1..n -> pool] : n \in 1..MaxChunks }

\* the native series fed to encode
SeriesSet ==
    { [name |-> n, dtype |-> "Int64", chunks |-> c] : n \in Names, c \in ChunkSeqs(IntChunks) }
    \cup
    { [name |-> n, dtype |-> "String", chunks |-> c] : n \in Names, c \in ChunkSeqs(StrChunks) }

RECURSIVE Flatten(_)
Flatten(chunks) ==
    IF chunks = <<>> THEN <<>> ELSE Head(chunks) \o Flatten(Tail(chunks))

\* Series::rechunk: one contiguous chunk holding every value in order
Rechunk(s) == [s EXCEPT !.chunks = << Flatten(s.chunks) >>]

\* the arrow physical type a dtype is exported as at a compatibility level
ArrowType(dtype, level) ==
    IF dtype = "String"
    THEN (IF level = CompatOldest THEN "LargeUtf8" ELSE "Utf8View")
    ELSE dtype

\* the dtype an imported arrow type is read as
DTypeOfArrow(atype) ==
    IF atype \in {"LargeUtf8", "Utf8View"} THEN "String" ELSE atype

Placeholder(dtype) == IF dtype = "String" THEN "" ELSE 0

\* Series::to_arrow(i, compat_level): values buffer plus validity bitmap
ToArrow(s, i, level) ==
    LET c == s.chunks[i] IN
    [ atype    |-> ArrowType(s.dtype, level),
      level    |-> level,
      length   |-> Len(c),
      values   |-> [k \in 1..Len(c) |-> IF c[k] = None THEN Placeholder(s.dtype) ELSE c[k][1]],
      validity |-> [k \in 1..Len(c) |-> c[k] # None],
      nulls    |-> Cardinality({k \in 1..Len(c) : c[k] = None}) ]

\* reading an arrow array back into logical values
FromArrow(arr) ==
    [k \in 1..arr.length |-> IF arr.validity[k] THEN Some(arr.values[k]) ELSE None]

----------------------------------------------------------------------------
(* The host side of the Series boundary *)

\* what the host Series class may expose: the two import hooks and the
\* _newest_compat_level hook with the level it reports
Hosts ==
    [ newer : BOOLEAN, older : BOOLEAN,
      compat : {None} \cup { Some(l) : l \in ReportedLevels } ]

\* the host series built by the import hook from the descriptor pairs it is
\* given: one host chunk per pair, read through the data descriptor
HostImport(name, descs) ==
    [ name   |-> name,
      dtype  |-> DTypeOfArrow(descs[1].array.atype),
      chunks |-> [i \in 1..Len(descs) |-> FromArrow(descs[i].array)] ]

\* polars.from_arrow(arg) on the pyarrow path: a host series with no name
HostFromArrow(arr) ==
    [ name |-> "", dtype |-> DTypeOfArrow(arr.atype), chunks |-> << FromArrow(arr) >> ]

\* host Series.rename(name)
HostRename(hs, name) == [hs EXCEPT !.name = name]

\* ffi::to_py::to_py_array: the arrow array handed to pyarrow unchanged
to_py_array(arr) == arr

----------------------------------------------------------------------------
(* IntoPyObject for PySeries *)

\* a resolution that probes the older hook first
ResolveOlderHookFirst(h) ==
    IF h.older THEN "_import_from_c"
    ELSE IF h.newer THEN "_import_arrow_from_c"
    ELSE "none"

\* getattr("_import_arrow_from_c").or_else(getattr("_import_from_c"))
ResolveImportHook(h) ==
    IF h.newer THEN "_import_arrow_from_c"
    ELSE IF h.older THEN "_import_from_c"
    ELSE "none"

\* the compatibility level of the zero-copy path
EncodeCompatLevel(h) ==
    WithLevelOrNewest(IF h.compat = None THEN DefaultCompatLevel ELSE h.compat[1])

\* an export that rechunks first and hands over a single descriptor pair
ExportRechunked(s, level) ==
    << [ schema |-> [name |-> "", atype |-> ArrowType(s.dtype, level), nullable |-> TRUE],
         array  |-> ToArrow(Rechunk(s), 1, level) ] >>

\* the loop over 0..n_chunks: one (schema, array) descriptor pair per chunk
ExportChunks(s, level) ==
    [ i \in 1..Len(s.chunks) |->
        [ schema |-> [name |-> "", atype |-> ArrowType(s.dtype, level), nullable |-> TRUE],
          array  |-> ToArrow(s, i, level) ] ]

\* the boxes leaked for the n chunks of encode call c
BoxesOf(c, n) ==
    { [call |-> c, chunk |-> i, kind |-> k] : i \in 1..n, k \in {"schema", "array"} }

\* the payload of each exported data descriptor; the host took the first k
NewPayloads(c, n, k) ==
    [ id \in {c} \X (1..n) |->
        [ sender |-> 0, host |-> 0, holder |-> IF id[2] <= k THEN "host" ELSE "nobody" ] ]

\* let _ = Box::from_raw(schema_ptr): the schema box is freed
FreeSchemaBoxes(h, c, n) ==
    h \ { b \in BoxesOf(c, n) : b.kind = "schema" }

\* Box::from_raw(array_ptr); *array: the array box is deallocated
FreeArrayBoxes(h, c, n) ==
    h \ { b \in BoxesOf(c, n) : b.kind = "array" }

\* dropping the array instead: the sender runs the release callback
DropArray(p) == [p EXCEPT !.sender = @ + 1]

\* std::mem::forget(array): the descriptor's release callback is not run
ForgetArray(p) == p

\* the deallocation loop over chunk_ptrs
DeallocPayloads(pl, c, n) ==
    [ id \in DOMAIN pl |-> IF id[1] = c /\ id[2] <= n THEN ForgetArray(pl[id]) ELSE pl[id] ]

NoDec == [ status |-> "none", call |-> 0, ob |-> None, kwarg |-> None, series |-> None ]

NoEnc ==
    [ status |-> "none", call |-> 0, transport |-> "none",
      hostCalls |-> <<>>, level |-> None, handed |-> <<>>, result |-> None ]

\* the zero-copy branch; the host import hook either returns a series or
\* raises after having taken the payloads of the first k chunks
EncodeZeroCopy(s, hook, raises, k) ==
    LET c     == calls + 1
        level == EncodeCompatLevel(host)
        descs == ExportChunks(s, level)
        n     == Len(descs)
        h1    == heap \cup BoxesOf(c, n)
        p1    == payloads @@ NewPayloads(c, n, k)
        base  == [ NoEnc EXCEPT !.call = c, !.transport = hook,
                                !.hostCalls = <<hook>>, !.level = Some(level),
                                !.handed = descs ]
    IN  /\ calls' = c
        /\ IF raises
           THEN \* import_arrow_from_c.call1(..)? returns the error at once
                /\ heap' = h1
                /\ payloads' = p1
                /\ enc' = [base EXCEPT !.status = "err"]
           ELSE /\ heap' = FreeArrayBoxes(FreeSchemaBoxes(h1, c, n), c, n)
                /\ payloads' = DeallocPayloads(p1, c, n)
                /\ enc' = [base EXCEPT !.status = "ok",
                                       !.result = Some(HostImport(s.name, descs))]

\* the pyarrow branch
EncodeViaPyarrow(s, raises) ==
    LET c   == calls + 1
        r   == Rechunk(s)
        arr == ToArrow(r, 1, CompatOldest)
        arg == to_py_array(arr)
        base == [ NoEnc EXCEPT !.call = c, !.transport = "pyarrow",
                               !.level = Some(CompatOldest), !.handed = << arg >> ]
    IN  /\ calls' = c
        /\ UNCHANGED <<heap, payloads>>
        /\ IF raises
           THEN enc' = [base EXCEPT !.status = "err", !.hostCalls = <<"from_arrow">>]
           ELSE enc' = [base EXCEPT !.status = "ok",
                                    !.hostCalls = <<"from_arrow", "rename">>,
                                    !.result = Some(HostRename(HostFromArrow(arg), r.name))]

PySeries_into_pyobject ==
    /\ calls < MaxCalls
    /\ \E raises \in BOOLEAN :
         LET hook == ResolveImportHook(host) IN
         IF hook # "none"
         THEN \E k \in 0..Len(src.chunks) :
                /\ (~raises => k = Len(src.chunks))
                /\ EncodeZeroCopy(src, hook, raises, k)
         ELSE EncodeViaPyarrow(src, raises)
    /\ dec' = NoDec
    /\ UNCHANGED <<host, src, dtop, tbl, tenc, pop>>

\* the host drops what it imported in encode call c: it runs the release
\* callback of every payload it holds, once
HostRelease ==
    /\ \E c \in 1..calls :
         /\ \E id \in DOMAIN payloads :
              id[1] = c /\ payloads[id].holder = "host" /\ payloads[id].host = 0
         /\ payloads' =
              [ id \in DOMAIN payloads |->
                  IF id[1] = c /\ payloads[id].holder = "host"
                  THEN [payloads[id] EXCEPT !.host = @ + 1]
                  ELSE payloads[id] ]
    /\ UNCHANGED <<host, src, heap, calls, enc, dec, dtop, tbl, tenc, pop>>

----------------------------------------------------------------------------
(* FromPyObject for PySeries *)

\* host Series.rechunk()
HostRechunk(hs) == [hs EXCEPT !.chunks = << Flatten(hs.chunks) >>]

\* the compat_level keyword: set only when _newest_compat_level answers
DecodeCompatKwarg(h) ==
    IF h.compat = None THEN None ELSE Some(WithLevelOrNewest(h.compat[1]))

\* host Series.to_arrow(**kwargs): chunk 0 at the requested level, or at the
\* host's default (oldest) level when no level is given
HostToArrow(hs, kwarg) ==
    ToArrow(hs, 1, IF kwarg = None THEN CompatOldest ELSE kwarg[1])

\* ffi::to_rust::array_to_rust: the host array read into a native array
array_to_rust(arr) == arr

\* Series::try_from((name, arr)): a one-chunk series tagged with the name
SeriesTryFrom(name, arr) ==
    [ name |-> name, dtype |-> DTypeOfArrow(arr.atype), chunks |-> << FromArrow(arr) >> ]

\* a decode that reads chunk 0 without consolidating the host series first
DecodeSeriesNoRechunk(ob, h) ==
    SeriesTryFrom(ob.name, array_to_rust(HostToArrow(ob, DecodeCompatKwarg(h))))

\* extract_bound as a function of the host series and the host hooks
DecodeSeries(ob, h) ==
    LET r      == HostRechunk(ob)
        name   == r.name
        kwarg  == DecodeCompatKwarg(h)
        arr    == array_to_rust(HostToArrow(r, kwarg))
    IN  SeriesTryFrom(name, arr)

\* decode of the host series the last encode call returned
PySeries_extract_bound ==
    /\ enc.status = "ok"
    /\ dec' = [ status |-> "ok", call |-> enc.call, ob |-> enc.result,
                kwarg |-> DecodeCompatKwarg(host),
                series |-> Some(DecodeSeries(enc.result[1], host)) ]
    /\ UNCHANGED <<host, src, heap, payloads, calls, enc, dtop, tbl, tenc, pop>>

----------------------------------------------------------------------------
(* Specification of the Series boundary *)

NoDtop == [ op |-> "none", dt |-> None, py |-> None, res |-> [status |-> "none"] ]
NoTbl == [ status |-> "none", ob |-> None, df |-> None ]
NoTenc ==
    [ status |-> "none", df |-> None, hostFailed |-> FALSE,
      ctorCalls |-> <<>>, result |-> None ]
NoPop == [ op |-> "none", kind |-> "none", input |-> None, instance |-> None,
           orig |-> None, res |-> [status |-> "none"] ]

Init ==
    /\ host \in Hosts
    /\ src \in SeriesSet
    /\ heap = {}
    /\ payloads = [ id \in {} |-> 0 ]
    /\ calls = 0
    /\ enc = NoEnc
    /\ dec = NoDec
    /\ dtop = NoDtop
    /\ tbl = NoTbl
    /\ tenc = NoTenc
    /\ pop = NoPop

Next ==
    \/ PySeries_into_pyobject
    \/ HostRelease
    \/ PySeries_extract_bound

Spec == Init /\ [][Next]_vars

----------------------------------------------------------------------------
(* DataType and the host type objects *)

Prims ==
    { "Int8", "Int16", "Int32", "Int64", "UInt8", "UInt16", "UInt32", "UInt64",
      "Float32", "Float64", "Boolean", "String", "Binary", "Date", "Time", "Null" }

TimeUnits == {"Nanoseconds", "Microseconds", "Milliseconds"}
Orderings == {"Physical", "Lexical"}

\* CategoricalOrdering::default() and UnknownKind::default()
DefaultOrdering == "Physical"
DefaultUnknownKind == "Any"

Prim(p) == [tag |-> p]
Decimal(precision, scale) == [tag |-> "Decimal", precision |-> precision, scale |-> scale]
Datetime(tu, tz) == [tag |-> "Datetime", tu |-> tu, tz |-> tz]
Duration(tu) == [tag |-> "Duration", tu |-> tu]
Categorical(rev_map, ordering) ==
    [tag |-> "Categorical", rev_map |-> rev_map, ordering |-> ordering]
Enum(rev_map, ordering) == [tag |-> "Enum", rev_map |-> rev_map, ordering |-> ordering]
List(inner) == [tag |-> "List", inner |-> inner]
Array(inner, size) == [tag |-> "Array", inner |-> inner, size |-> size]
Struct(fields) == [tag |-> "Struct", fields |-> fields]
Field(name, dtype) == [name |-> name, dtype |-> dtype]
Unknown(kind) == [tag |-> "Unknown", kind |-> kind]
BinaryOffset == [tag |-> "BinaryOffset"]
Object == [tag |-> "Object"]

\* the categories of a reverse mapping
Categories == << "a", "b" >>

\* the variants with no child type, built with explicit parameters
Leaves ==
    { Prim(p) : p \in Prims }
    \cup { Decimal(p, s) : p \in {None, Some(10)}, s \in {None, Some(2)} }
    \cup { Datetime(tu, tz) : tu \in TimeUnits, tz \in {None, Some("UTC")} }
    \cup { Duration(tu) : tu \in TimeUnits }
    \cup { Categorical(r, o) : r \in {None, Some(Categories)}, o \in Orderings }
    \cup { Enum(Some(Categories), o) : o \in Orderings }

\* the types of nesting depth at most d
RECURSIVE Nested(_)
Nested(d) ==
    IF d = 0 THEN Leaves
    ELSE LET sub == Nested(d - 1) IN
         Leaves
         \cup { List(x) : x \in sub }
         \cup { Array(x, n) : x \in sub, n \in {0, 2} }
         \cup { Struct(<<>>) }
         \cup { Struct(<< Field("a", x) >>) : x \in sub }
         \cup { Struct(<< Field("a", x), Field("b", Prim("String")) >>) : x \in sub }
         \cup { Struct(<< Field("b", Prim("String")), Field("a", x) >>) : x \in sub }

\* every DataType built with explicit parameters
ExplicitDTypes == Nested(MaxDepth)

\* the remaining variants: the unknown family, an enumeration with no
\* reverse mapping, the opaque object and the internal binary-offset type
\* an i128 given by its sign and magnitude: the magnitude needs "bits" bits
\* (0 for zero), and pow2 says it is exactly 2^(bits - 1)
DynInts ==
    { [neg |-> n, bits |-> b, pow2 |-> p] :
        n \in BOOLEAN, b \in {0, 1, 31, 32, 33, 63, 64, 65, 127}, p \in BOOLEAN } \
    { v \in [neg : BOOLEAN, bits : {0}, pow2 : BOOLEAN] : v.neg \/ v.pow2 }

\* DataType::Unknown(UnknownKind::Int(v))
UnknownInt(v) == [tag |-> "Unknown", kind |-> "Int", v |-> v]

\* iN::try_from(v).is_ok() for a signed type of w bits
FitsSigned(v, w) == v.bits < w \/ (v.neg /\ v.pow2 /\ v.bits = w)

\* uN::try_from(v).is_ok() for an unsigned type of w bits
FitsUnsigned(v, w) == ~v.neg /\ v.bits <= w

\* a materialization that leaves the integer unresolved
MaterializeUnresolved(v) == [tag |-> "Unknown", kind |-> "Any"]

\* materialize_dyn_int(v).dtype(): the first of Int32, Int64, UInt64 that
\* holds v, and Null when none does
materialize_dyn_int(v) ==
    IF FitsSigned(v, 32) THEN Prim("Int32")
    ELSE IF FitsSigned(v, 64) THEN Prim("Int64")
    ELSE IF FitsUnsigned(v, 64) THEN Prim("UInt64")
    ELSE Prim("Null")

OtherDTypes ==
    { Unknown(k) : k \in {"Any", "Float", "Str"} }
    \cup { UnknownInt(v) : v \in DynInts }
    \cup { Enum(None, DefaultOrdering), Object, BinaryOffset }

DTypes == ExplicitDTypes \cup OtherDTypes

\* a host class object: its type is DataTypeClass and __name__ is its name
HostClass(name) == [kind |-> "class", name |-> name]

\* an instance of a host class, with the attributes its constructor stored
HostInstance(qualname, attrs) == [kind |-> "instance", qualname |-> qualname, attrs |-> attrs]

\* class.call0()
HostCall0(name) == HostInstance(name, <<>>)

\* ob.get_type().qualname()
TypeQualname(ob) == IF ob.kind = "class" THEN "DataTypeClass" ELSE ob.qualname

Ok(v) == [status |-> "ok", val |-> v]
Err(type, msg) == [status |-> "err", err |-> [type |-> type, msg |-> msg]]
Panic(msg) == [status |-> "panic", msg |-> msg]

\* TimeUnit::to_ascii
to_ascii(tu) ==
    CASE tu = "Nanoseconds" -> "ns"
      [] tu = "Microseconds" -> "us"
      [] tu = "Milliseconds" -> "ms"

\* FromPyObject for PyTimeUnit
PyTimeUnit_extract_bound(v) ==
    CASE v = "ns" -> Ok("Nanoseconds")
      [] v = "us" -> Ok("Microseconds")
      [] v = "ms" -> Ok("Milliseconds")
      [] OTHER -> Err("ValueError", << "time_unit must be one of {'ns', 'us', 'ms'}, got ", v >>)

\* the host series holding the values of a native series (to_series)
to_series(s) == [name |-> s.name, dtype |-> s.dtype, chunks |-> s.chunks]

\* Series::from_arrow("category", categories)
CategorySeries(cats) ==
    [ name |-> "category", dtype |-> "String",
      chunks |-> << [i \in 1..Len(cats) |-> Some(cats[i])] >> ]

\* the first result of a sequence of results that is not ok, if any
FirstNotOk(rs) ==
    IF \E i \in 1..Len(rs) : rs[i].status # "ok"
    THEN Some(rs[CHOOSE i \in 1..Len(rs) :
                    /\ rs[i].status # "ok"
                    /\ \A j \in 1..(i - 1) : rs[j].status = "ok"])
    ELSE None

----------------------------------------------------------------------------
(* IntoPyObject for PyDataType *)

\* the variants encoded as class.call0() of the class of the same name
Call0Tags ==
    { "Int8", "Int16", "Int32", "Int64", "UInt8", "UInt16", "UInt32", "UInt64",
      "Float32", "Float64", "Boolean", "String", "Binary", "Date", "Object" }

\* the ordering text handed to the Categorical constructor
OrderingText(ordering) == IF ordering = "Physical" THEN "physical" ELSE "lexical"

RECURSIVE PyDataType_into_pyobject(_)
PyDataType_into_pyobject(dt) ==
    CASE dt.tag \in Call0Tags -> Ok(HostCall0(dt.tag))
      [] dt.tag = "Unknown" /\ dt.kind = "Float" -> Ok(HostCall0("Float64"))
      [] dt.tag = "Unknown" /\ dt.kind = "Str" -> Ok(HostCall0("String"))
      [] dt.tag = "Decimal" ->
            Ok(HostInstance("Decimal", [precision |-> dt.precision, scale |-> dt.scale]))
      [] dt.tag = "Array" ->
            LET inner == PyDataType_into_pyobject(dt.inner) IN
            IF inner.status # "ok" THEN Panic("to_object")
            ELSE Ok(HostInstance("Array", [inner |-> inner.val, size |-> dt.size]))
      [] dt.tag = "List" ->
            LET inner == PyDataType_into_pyobject(dt.inner) IN
            IF inner.status # "ok" THEN inner
            ELSE Ok(HostInstance("List", [inner |-> inner.val]))
      [] dt.tag = "Datetime" ->
            Ok(HostInstance("Datetime", [time_unit |-> to_ascii(dt.tu), time_zone |-> dt.tz]))
      [] dt.tag = "Duration" ->
            Ok(HostInstance("Duration", [time_unit |-> to_ascii(dt.tu)]))
      [] dt.tag = "Categorical" ->
            Ok(HostInstance("Categorical", [ordering |-> OrderingText(dt.ordering)]))
      [] dt.tag = "Enum" ->
            IF dt.rev_map = None THEN Err("ValueError", << "rev_map" >>)
            ELSE Ok(HostInstance("Enum",
                        [categories |-> to_series(CategorySeries(dt.rev_map[1]))]))
      [] dt.tag = "Time" -> Ok(HostClass("Time"))
      [] dt.tag = "Struct" ->
            LET rs == [i \in 1..Len(dt.fields) |-> PyDataType_into_pyobject(dt.fields[i].dtype)]
            IN  IF FirstNotOk(rs) # None THEN Panic("to_object")
                ELSE Ok(HostInstance("Struct",
                        [fields |-> [i \in 1..Len(rs) |->
                            HostInstance("Field",
                                [name |-> dt.fields[i].name, dtype |-> rs[i].val])]]))
      [] dt.tag = "Null" -> Ok(HostClass("Null"))
      [] dt.tag = "Unknown" /\ dt.kind = "Int" ->
            PyDataType_into_pyobject(materialize_dyn_int(dt.v))
      [] dt.tag = "Unknown" /\ dt.kind \notin {"Float", "Str", "Int"} ->
            Ok(HostCall0("Unknown"))
      [] dt.tag = "BinaryOffset" -> Panic("this type isn't exposed to python")

----------------------------------------------------------------------------
(* FromPyObject for PyDataType *)

\* an error that does not name the identifier
NotADataTypeUnnamed(dt) ==
    Err("TypeError", << "not a Polars data type" >>)

NotADataType(dt) ==
    Err("TypeError",
        << "'", dt, "' is not a Polars data type, or the plugin isn't compiled with the right features" >>)

\* a match whose bare Datetime defaults to nanoseconds
DecodeBareClassNs(name) ==
    CASE name \in Prims -> Ok(Prim(name))
      [] name = "Datetime" -> Ok(Datetime("Nanoseconds", None))
      [] OTHER -> NotADataType(name)

\* the match on __name__ of a bare class
DecodeBareClass(name) ==
    CASE name \in Prims -> Ok(Prim(name))
      [] name = "Categorical" -> Ok(Categorical(None, DefaultOrdering))
      [] name = "Enum" -> Ok(Enum(None, DefaultOrdering))
      [] name = "Datetime" -> Ok(Datetime("Microseconds", None))
      [] name = "Duration" -> Ok(Duration("Microseconds"))
      [] name = "Decimal" -> Ok(Decimal(None, None))
      [] name = "List" -> Ok(List(Prim("Null")))
      [] name = "Array" -> Ok(Array(Prim("Null"), 0))
      [] name = "Struct" -> Ok(Struct(<<>>))
      [] name = "Object" -> Panic("not yet implemented")
      [] name = "Unknown" -> Ok(Unknown(DefaultUnknownKind))
      [] OTHER -> NotADataType(name)

\* b"physical" / b"lexical" / invalid ordering argument
DecodeOrdering(text) ==
    CASE text = "physical" -> Ok("Physical")
      [] text = "lexical" -> Ok("Lexical")
      [] OTHER -> Err("ValueError", << "invalid ordering argument: ", text >>)

\* extract::<usize>() of an attribute that may be None
ExtractUsize(v) ==
    IF v = None THEN Err("TypeError", << "'NoneType' object cannot be interpreted as an integer" >>)
    ELSE Ok(v[1])

\* get_series, s.str() and RevMapping::build_local of the first chunk
DecodeCategories(ob, h) ==
    LET s == DecodeSeries(ob, h) IN
    IF s.dtype # "String" THEN Err("SchemaMismatch", << "invalid series dtype: expected String" >>)
    ELSE Ok([i \in 1..Len(s.chunks[1]) |-> s.chunks[1][i][1]])

RECURSIVE PyDataType_extract_bound(_, _)
PyDataType_extract_bound(ob, h) ==
    LET type_name == TypeQualname(ob) IN
    CASE type_name = "DataTypeClass" -> DecodeBareClass(ob.name)
      [] type_name \in Prims -> Ok(Prim(type_name))
      [] type_name = "Categorical" ->
            LET o == DecodeOrdering(ob.attrs.ordering) IN
            IF o.status # "ok" THEN o ELSE Ok(Categorical(None, o.val))
      [] type_name = "Enum" ->
            LET c == DecodeCategories(ob.attrs.categories, h) IN
            IF c.status # "ok" THEN c ELSE Ok(Enum(Some(c.val), DefaultOrdering))
      [] type_name = "Datetime" ->
            LET tu == PyTimeUnit_extract_bound(ob.attrs.time_unit) IN
            IF tu.status # "ok" THEN tu ELSE Ok(Datetime(tu.val, ob.attrs.time_zone))
      [] type_name = "Duration" ->
            LET tu == PyTimeUnit_extract_bound(ob.attrs.time_unit) IN
            IF tu.status # "ok" THEN tu ELSE Ok(Duration(tu.val))
      [] type_name = "Decimal" ->
            LET scale == ExtractUsize(ob.attrs.scale) IN
            IF scale.status # "ok" THEN scale
            ELSE Ok(Decimal(ob.attrs.precision, Some(scale.val)))
      [] type_name = "List" ->
            LET inner == PyDataType_extract_bound(ob.attrs.inner, h) IN
            IF inner.status # "ok" THEN inner ELSE Ok(List(inner.val))
      [] type_name = "Array" ->
            LET inner == PyDataType_extract_bound(ob.attrs.inner, h) IN
            IF inner.status # "ok" THEN inner ELSE Ok(Array(inner.val, ob.attrs.size))
      [] type_name = "Struct" ->
            LET fs == ob.attrs.fields
                rs == [i \in 1..Len(fs) |-> PyDataType_extract_bound(fs[i].attrs.dtype, h)]
                bad == FirstNotOk(rs)
            IN  IF bad # None THEN bad[1]
                ELSE Ok(Struct([i \in 1..Len(fs) |-> Field(fs[i].attrs.name, rs[i].val)]))
      [] type_name = "Object" -> Panic("object not supported")
      [] type_name = "Unknown" -> Ok(Unknown(DefaultUnknownKind))
      [] OTHER -> NotADataType(type_name)

----------------------------------------------------------------------------
(* Specification of the DataType boundary *)

\* identifiers the host may present that are in no table
ForeignNames == {"NotAType", "Utf8"}

\* the names of the host dtype classes
ClassNames ==
    Prims \cup { "Categorical", "Enum", "Datetime", "Duration", "Decimal", "List",
                 "Array", "Struct", "Object", "Unknown" }

\* host type objects handed to decode that no encode produced: bare classes,
\* instances of foreign classes, and instances with parameters out of range
HostObjects ==
    { HostClass(n) : n \in ClassNames \cup ForeignNames }
    \cup { HostCall0(n) : n \in {"Unknown", "Object"} \cup ForeignNames }
    \cup { HostInstance(n, [inner |-> HostClass("Int8")]) : n \in ForeignNames }
    \cup { HostInstance("List", [inner |-> HostClass(n)]) : n \in ForeignNames }
    \cup { HostInstance("Datetime", [time_unit |-> "s", time_zone |-> None]),
           HostInstance("Duration", [time_unit |-> "s"]),
           HostInstance("Categorical", [ordering |-> "random"]) }

\* the series held while no series crosses the boundary
IdleSeries == [name |-> "x", dtype |-> "Int64", chunks |-> << << <<1>>, <<2>> >> >>]

\* the process before any call, holding IdleSeries
IdleInit ==
    /\ host \in Hosts
    /\ src = IdleSeries
    /\ heap = {}
    /\ payloads = [ id \in {} |-> 0 ]
    /\ calls = 0
    /\ enc = NoEnc
    /\ dec = NoDec
    /\ dtop = NoDtop
    /\ tbl = NoTbl
    /\ tenc = NoTenc
    /\ pop = NoPop

\* encode of a native DataType, when no call is in progress
EncodeDataType ==
    /\ dtop.op = "none"
    /\ \E dt \in DTypes :
         dtop' = [ op |-> "encode", dt |-> Some(dt), py |-> None,
                   res |-> PyDataType_into_pyobject(dt) ]
    /\ UNCHANGED <<host, src, heap, payloads, calls, enc, dec, tbl, tenc, pop>>

\* decode of the host object the last encode produced
DecodeEncoded ==
    /\ dtop.op = "encode"
    /\ dtop.res.status = "ok"
    /\ dtop' = [ op |-> "decode", dt |-> dtop.dt, py |-> Some(dtop.res.val),
                 res |-> PyDataType_extract_bound(dtop.res.val, host) ]
    /\ UNCHANGED <<host, src, heap, payloads, calls, enc, dec, tbl, tenc, pop>>

\* decode of a host object that came from the host
DecodeHostObject ==
    /\ dtop.op = "none"
    /\ \E ob \in HostObjects :
         dtop' = [ op |-> "decode", dt |-> None, py |-> Some(ob),
                   res |-> PyDataType_extract_bound(ob, host) ]
    /\ UNCHANGED <<host, src, heap, payloads, calls, enc, dec, tbl, tenc, pop>>

\* the caller is done with the result of the last call
DropDataType ==
    /\ dtop.op # "none"
    /\ dtop' = NoDtop
    /\ UNCHANGED <<host, src, heap, payloads, calls, enc, dec, tbl, tenc, pop>>

DTypeNext ==
    \/ EncodeDataType
    \/ DecodeEncoded
    \/ DecodeHostObject
    \/ DropDataType

DTypeSpec == IdleInit /\ [][DTypeNext]_vars

----------------------------------------------------------------------------
(* FromPyObject for PyDataFrame *)

\* DataFrame::new_no_checks_height_from_first(columns)
new_no_checks_height_from_first(columns) ==
    [ height  |-> IF columns = <<>> THEN 0 ELSE Len(Flatten(columns[1].chunks)),
      columns |-> columns ]

\* extract_bound: every host column decoded in order, then assembled
PyDataFrame_extract_bound(ob, h) ==
    LET columns == [i \in 1..Len(ob.columns) |-> DecodeSeries(ob.columns[i], h)]
    IN  [ status |-> "ok", ob |-> Some(ob),
          df |-> Some(new_no_checks_height_from_first(columns)) ]

\* the host columns a host table may hold, of lengths 2 and 4
HostColumns ==
    { [name |-> n, dtype |-> "Int64", chunks |-> c] :
        n \in Names,
        c \in { << << <<1>>, <<2>> >> >>, << << <<1>>, <<2>> >>, << <<>>, <<4>> >> >> } }
    \cup { [name |-> "s", dtype |-> "String", chunks |-> << << <<"a">>, <<>> >> >>] }

\* host objects exposing get_columns() and width
HostTables ==
    { [columns |-> c, width |-> Len(c)] :
        c \in UNION { [1..n -> HostColumns] : n \in 0..MaxCols } }

\* decode of a host table, when no table call is in progress
DecodeTable ==
    /\ tbl.status = "none"
    /\ \E ob \in HostTables : tbl' = PyDataFrame_extract_bound(ob, host)
    /\ tenc' = NoTenc
    /\ UNCHANGED <<host, src, heap, payloads, calls, enc, dec, dtop, pop>>

----------------------------------------------------------------------------
(* IntoPyObject for PyDataFrame *)

\* the outcomes the host allows one Series encode call: everything succeeds
\* ("ok"), the import hook or from_arrow raises ("raise"), or a call whose
\* result is unwrapped fails ("fatal": the _newest_compat_level hook on the
\* zero-copy path, the pyarrow import on the other)
SeriesFaults(h) ==
    {"ok", "raise"}
    \cup (IF ResolveImportHook(h) = "none" \/ h.compat # None THEN {"fatal"} ELSE {})

\* PySeries::into_pyobject as a function of the sender state
\* st = [heap, payloads, calls]; on "raise" the host took the first k payloads
EncodeSeriesIn(st, s, h, fault, k) ==
    LET hook == ResolveImportHook(h)
        c    == st.calls + 1
        out(status, hp, pl, res) ==
            [ status |-> status, heap |-> hp, payloads |-> pl, calls |-> c,
              result |-> res ]
    IN  IF hook # "none"
        THEN LET descs == ExportChunks(s, EncodeCompatLevel(h))
                 n     == Len(descs)
                 h1    == st.heap \cup BoxesOf(c, n)
             IN  CASE fault = "fatal" ->
                        \* newest_compat_level.call0().unwrap()
                        out("panic", st.heap, st.payloads, None)
                   [] fault = "raise" ->
                        out("err", h1, st.payloads @@ NewPayloads(c, n, k), None)
                   [] OTHER ->
                        out("ok", FreeArrayBoxes(FreeSchemaBoxes(h1, c, n), c, n),
                            DeallocPayloads(st.payloads @@ NewPayloads(c, n, n), c, n),
                            Some(HostImport(s.name, descs)))
        ELSE LET r   == Rechunk(s)
                 arg == to_py_array(ToArrow(r, 1, CompatOldest))
             IN  CASE fault = "fatal" ->
                        \* py.import("pyarrow").expect("pyarrow not installed")
                        out("panic", st.heap, st.payloads, None)
                   [] fault = "raise" ->
                        out("err", st.heap, st.payloads, None)
                   [] OTHER ->
                        out("ok", st.heap, st.payloads,
                            Some(HostRename(HostFromArrow(arg), r.name)))

\* a loop that walks the columns from the last to the first
ColumnsReversed(df) ==
    [ i \in 1..Len(df.columns) |-> df.columns[Len(df.columns) + 1 - i] ]

\* df.get_columns(): the columns in table order
get_columns(df) == df.columns

\* the loop over df_cols: column i is encoded from the state the columns
\* before it left; the column at index failAt (if any) meets the fault, and
\* the ? or the panic ends the loop there
RECURSIVE EncodeColumns(_, _, _, _, _, _, _)
EncodeColumns(cols, i, st, h, failAt, fault, k) ==
    IF i > Len(cols)
    THEN [ status |-> "ok", st |-> st, series |-> <<>> ]
    ELSE LET r  == EncodeSeriesIn(st, cols[i], h, IF i = failAt THEN fault ELSE "ok", k)
             s1 == [ heap |-> r.heap, payloads |-> r.payloads, calls |-> r.calls ]
         IN  IF r.status # "ok"
             THEN [ status |-> r.status, st |-> s1, series |-> <<>> ]
             ELSE LET rest == EncodeColumns(cols, i + 1, s1, h, failAt, fault, k)
                  IN  [ rest EXCEPT !.series =
                          IF rest.status = "ok" THEN <<r.result[1]>> \o @ ELSE <<>> ]

\* host polars.DataFrame(list of series): rejects columns of unequal length
\* and duplicate names
HostDataFrameAccepts(series) ==
    /\ \A i, j \in 1..Len(series) :
          Len(Flatten(series[i].chunks)) = Len(Flatten(series[j].chunks))
    /\ \A i, j \in 1..Len(series) : series[i].name = series[j].name => i = j

\* the host table the constructor builds from the series it is given
HostDataFrame(series) == [ columns |-> series, width |-> Len(series) ]

\* into_pyobject: the columns encoded in order, then one constructor call
\* whose result is unwrapped
PyDataFrame_into_pyobject(df, st, h, failAt, fault, k, ctorRaises) ==
    LET cols == get_columns(df)
        r    == EncodeColumns(cols, 1, st, h, failAt, fault, k)
        base == [ NoTenc EXCEPT !.df = Some(df) ]
    IN  IF r.status # "ok"
        THEN [ st |-> r.st,
               tenc |-> [base EXCEPT !.status = r.status, !.hostFailed = TRUE] ]
        ELSE IF ctorRaises \/ ~HostDataFrameAccepts(r.series)
        THEN [ st |-> r.st,
               tenc |-> [base EXCEPT !.status = "panic", !.hostFailed = TRUE,
                                     !.ctorCalls = << r.series >>] ]
        ELSE [ st |-> r.st,
               tenc |-> [base EXCEPT !.status = "ok", !.ctorCalls = << r.series >>,
                                     !.result = Some(HostDataFrame(r.series))] ]

\* encode of the table the last decode returned
EncodeTable ==
    /\ tbl.status = "ok"
    /\ tenc.status = "none"
    /\ calls + Len(tbl.df[1].columns) <= MaxCalls
    /\ \E failAt \in 0..Len(tbl.df[1].columns), fault \in SeriesFaults(host),
          k \in 0..1, ctorRaises \in BOOLEAN :
         /\ (failAt = 0 <=> fault = "ok")
         /\ (fault # "raise" => k = 0)
         /\ (ctorRaises => failAt = 0)
         /\ LET r == PyDataFrame_into_pyobject(
                        tbl.df[1], [heap |-> heap, payloads |-> payloads, calls |-> calls],
                        host, failAt, fault, k, ctorRaises)
            IN  /\ tenc' = r.tenc
                /\ heap' = r.st.heap
                /\ payloads' = r.st.payloads
                /\ calls' = r.st.calls
    /\ UNCHANGED <<host, src, enc, dec, dtop, tbl, pop>>

\* the caller is done with the table and with what its encode returned
DropTable ==
    /\ tbl.status # "none"
    /\ tbl' = NoTbl
    /\ tenc' = NoTenc
    /\ UNCHANGED <<host, src, heap, payloads, calls, enc, dec, dtop, pop>>

TableNext ==
    \/ DecodeTable
    \/ EncodeTable
    \/ DropTable

TableSpec == IdleInit /\ [][TableNext]_vars

----------------------------------------------------------------------------
(* LazyFrame and Expr: serialized plans and expressions *)

\* native logical plans and expressions
Plans == { [kind |-> "plan", op |-> o, arg |-> a] : o \in {"scan", "select"}, a \in 1..2 }
Exprs == { [kind |-> "expr", op |-> o, arg |-> a] : o \in {"col", "lit"}, a \in 1..2 }

KindCode(kind) == IF kind = "plan" THEN 1 ELSE 2
OpCode(op) == IF op \in {"scan", "col"} THEN 1 ELSE 2

\* ciborium::ser::into_writer(value, &mut writer): the bytes written
Serialize(v) == << KindCode(v.kind), OpCode(v.op), v.arg >>

\* the byte strings a host object may hold as its state
Blobs ==
    UNION { [1..n -> 0..3] : n \in 0..Len(Serialize([kind |-> "plan", op |-> "scan", arg |-> 1])) }

\* ciborium::de::from_reader::<T>(bytes), T the type of the values in domain
Deserialize(domain, bytes) ==
    IF \E v \in domain : Serialize(v) = bytes
    THEN Ok(CHOOSE v \in domain : Serialize(v) = bytes)
    ELSE IF \E v \in domain : Len(bytes) < Len(Serialize(v))
                                /\ bytes = SubSeq(Serialize(v), 1, Len(bytes))
    THEN Err("ciborium", <<"Io(UnexpectedEof)">>)
    ELSE Err("ciborium", <<"Semantic(None, invalid type)">>)

\* a host object as far as pickling goes: its class and what __getstate__
\* does (returns bytes, returns something else, or raises)
HostPickled(cls, outcome, bytes) ==
    [ cls |-> cls, getstate |-> [outcome |-> outcome, bytes |-> bytes] ]

\* the host None
HostNone == HostPickled("NoneType", "other", <<>>)

\* the host objects handed to decode
HostPickles ==
    { HostPickled(c, "bytes", b) : c \in {"LazyFrame", "Expr"}, b \in Blobs }
    \cup { HostPickled(c, o, <<>>) : c \in {"LazyFrame", "Expr"}, o \in {"other", "raises"} }
    \cup { HostNone }

\* ob.call_method0("__getstate__")?.extract::<Vec<u8>>()?
GetState(ob) ==
    CASE ob.getstate.outcome = "raises" -> Err("PyErr", <<"__getstate__">>)
      [] ob.getstate.outcome = "other" -> Err("TypeError", <<"Vec<u8>">>)
      [] OTHER -> Ok(ob.getstate.bytes)

\* a decode that hands the deserializer error on as it is
BareParseError(what, e) == e

\* map_err(|e| PyPolarsErr::Other(format!("Error when deserializing {what}.
\* This may be due to mismatched polars versions. {e}")))
DeserializeError(what, e) ==
    Err("PyPolarsErr::Other",
        << "Error when deserializing", what,
           "This may be due to mismatched polars versions." >> \o e.err.msg)

\* LazyFrame::from(lp)
LazyFrameFrom(lp) == [logical_plan |-> lp]

PyLazyFrame_extract_bound(ob) ==
    LET s == GetState(ob) IN
    IF s.status # "ok" THEN s
    ELSE LET lp == Deserialize(Plans, s.val) IN
         IF lp.status # "ok" THEN DeserializeError("LazyFrame", lp)
         ELSE Ok(LazyFrameFrom(lp.val))

PyExpr_extract_bound(ob) ==
    LET s == GetState(ob) IN
    IF s.status # "ok" THEN s
    ELSE LET e == Deserialize(Exprs, s.val) IN
         IF e.status # "ok" THEN DeserializeError("'Expr'", e)
         ELSE Ok(e.val)

\* the host calls of an encode, in order; one of them may raise
PickleFaults == {"none", "getattr", "__new__", "__setstate__"}

\* cls.__new__(cls): an instance with no state yet
HostNew(cls) == HostPickled(cls, "raises", <<>>)

\* instance.__setstate__(bytes): the instance afterwards
HostSetState(instance, bytes) == HostPickled(instance.cls, "bytes", bytes)

\* what the host __setstate__ hook returns
HostSetStateReturn == HostNone

\* the encode shared by the two impls: returns the result and the instance
\* the host holds afterwards
EncodePickled(cls, v, fault) ==
    CASE fault = "getattr" ->
            [ res |-> Panic("getattr"), instance |-> None ]
      [] fault = "__new__" ->
            [ res |-> Panic("__new__"), instance |-> None ]
      [] fault = "__setstate__" ->
            [ res |-> Panic("__setstate__"), instance |-> Some(HostNew(cls)) ]
      [] OTHER ->
            LET instance == HostNew(cls)
                writer   == Serialize(v)
                bound    == HostSetStateReturn
            IN  [ res |-> Ok(bound), instance |-> Some(HostSetState(instance, writer)) ]

PyLazyFrame_into_pyobject(lf, fault) == EncodePickled("LazyFrame", lf.logical_plan, fault)

PyExpr_into_pyobject(e, fault) == EncodePickled("Expr", e, fault)

\* encode of a native LazyFrame, when no call is in progress
EncodeLazyFrame ==
    /\ pop.op = "none"
    /\ \E lp \in Plans, fault \in PickleFaults :
         LET r == PyLazyFrame_into_pyobject(LazyFrameFrom(lp), fault) IN
         pop' = [ op |-> "encode", kind |-> "LazyFrame", input |-> Some(LazyFrameFrom(lp)),
                  instance |-> r.instance, orig |-> None, res |-> r.res ]
    /\ UNCHANGED <<host, src, heap, payloads, calls, enc, dec, dtop, tbl, tenc>>

\* encode of a native Expr, when no call is in progress
EncodeExpr ==
    /\ pop.op = "none"
    /\ \E e \in Exprs, fault \in PickleFaults :
         LET r == PyExpr_into_pyobject(e, fault) IN
         pop' = [ op |-> "encode", kind |-> "Expr", input |-> Some(e),
                  instance |-> r.instance, orig |-> None, res |-> r.res ]
    /\ UNCHANGED <<host, src, heap, payloads, calls, enc, dec, dtop, tbl, tenc>>

\* decode of a host object as a LazyFrame
DecodeLazyFrame ==
    /\ pop.op = "none"
    /\ \E ob \in HostPickles :
         pop' = [ op |-> "decode", kind |-> "LazyFrame", input |-> Some(ob),
                  instance |-> None, orig |-> None, res |-> PyLazyFrame_extract_bound(ob) ]
    /\ UNCHANGED <<host, src, heap, payloads, calls, enc, dec, dtop, tbl, tenc>>

\* decode of a host object as an Expr
DecodeExpr ==
    /\ pop.op = "none"
    /\ \E ob \in HostPickles :
         pop' = [ op |-> "decode", kind |-> "Expr", input |-> Some(ob),
                  instance |-> None, orig |-> None, res |-> PyExpr_extract_bound(ob) ]
    /\ UNCHANGED <<host, src, heap, payloads, calls, enc, dec, dtop, tbl, tenc>>

\* extract_bound of the kind the last encode was of
ExtractPickled(kind, ob) ==
    IF kind = "LazyFrame" THEN PyLazyFrame_extract_bound(ob) ELSE PyExpr_extract_bound(ob)

\* decode of the value the last encode returned to its caller
DecodeReturned ==
    /\ pop.op = "encode"
    /\ pop.res.status = "ok"
    /\ pop' = [ op |-> "decode", kind |-> pop.kind, input |-> Some(pop.res.val),
                instance |-> pop.instance, orig |-> pop.input,
                res |-> ExtractPickled(pop.kind, pop.res.val) ]
    /\ UNCHANGED <<host, src, heap, payloads, calls, enc, dec, dtop, tbl, tenc>>

\* decode of the instance the last encode created and restored
DecodeRestored ==
    /\ pop.op = "encode"
    /\ pop.res.status = "ok"
    /\ pop' = [ op |-> "decode", kind |-> pop.kind, input |-> pop.instance,
                instance |-> pop.instance, orig |-> pop.input,
                res |-> ExtractPickled(pop.kind, pop.instance[1]) ]
    /\ UNCHANGED <<host, src, heap, payloads, calls, enc, dec, dtop, tbl, tenc>>

\* the caller is done with the result of the last call
DropPickled ==
    /\ pop.op # "none"
    /\ pop' = NoPop
    /\ UNCHANGED <<host, src, heap, payloads, calls, enc, dec, dtop, tbl, tenc>>

PlanNext ==
    \/ EncodeLazyFrame
    \/ EncodeExpr
    \/ DecodeLazyFrame
    \/ DecodeExpr
    \/ DecodeReturned
    \/ DecodeRestored
    \/ DropPickled

PlanSpec == IdleInit /\ [][PlanNext]_vars

----------------------------------------------------------------------------
(* Properties of Series encode and decode *)

ZeroCopy == enc.transport \in {"_import_arrow_from_c", "_import_from_c"}

\* the arrow arrays handed to the host by the last encode call
HandedArrays ==
    [ i \in 1..Len(enc.handed) |->
        IF enc.transport = "pyarrow" THEN enc.handed[i] ELSE enc.handed[i].array ]

\* C1: on the zero-copy path the payload of every data descriptor, of every
\* chunk of every encode call, is released at most once, and never by the
\* sender: only the host that imported it releases it.
C1_PayloadReleasedAtMostOnce ==
    \A id \in DOMAIN payloads :
        /\ payloads[id].sender = 0
        /\ payloads[id].sender + payloads[id].host <= 1

\* the host has released the second chunk of the first call, and a second
\* encode call has returned a host series
C1_Witness ==
    /\ calls >= 2
    /\ ZeroCopy
    /\ enc.status = "ok"
    /\ <<1, 2>> \in DOMAIN payloads
    /\ payloads[<<1, 2>>].host = 1

\* C2: once a zero-copy encode call has returned, with a host series or with
\* the error of the import hook, none of the descriptor boxes the call
\* allocated is still allocated.
C2_NoDescriptorLeak ==
    (enc.status \in {"ok", "err"} /\ ZeroCopy)
        => heap \cap BoxesOf(enc.call, Len(enc.handed)) = {}

\* C7: the level of every per-chunk export is the oldest level when the host
\* has no _newest_compat_level hook, and the level the hook reports otherwise.
C7_CompatLevelNegotiated ==
    enc.status # "none" =>
        \A i \in 1..Len(HandedArrays) :
            HandedArrays[i].level =
                (IF host.compat = None THEN CompatOldest ELSE host.compat[1])

\* the host entry points that import a series
Transports == {"_import_arrow_from_c", "_import_from_c", "from_arrow"}

\* C8: the newer hook is used whenever it is present, the older hook only when
\* the newer one is absent, the pyarrow constructor only when both are
\* absent, and each call uses exactly one of the three.
C8_HookResolutionOrder ==
    enc.status # "none" =>
        LET used == { enc.hostCalls[i] : i \in 1..Len(enc.hostCalls) } \cap Transports IN
        /\ Cardinality(used) = 1
        /\ ("_import_arrow_from_c" \in used <=> host.newer)
        /\ ("_import_from_c" \in used <=> (~host.newer /\ host.older))
        /\ ("from_arrow" \in used <=> (~host.newer /\ ~host.older))

\* both hooks are present and a call has gone through
C8_Witness ==
    /\ enc.status = "ok"
    /\ host.newer /\ host.older
    /\ enc.hostCalls = <<"_import_arrow_from_c">>

\* C9 as stated: on every transport the host is handed exactly one chunk.
C9_SingleChunkOnEveryTransport ==
    enc.status # "none" => Len(enc.handed) = 1

\* C9 as amended: the pyarrow path hands over exactly one array holding every
\* value of the series; the zero-copy path hands over one descriptor pair per
\* source chunk, in chunk order, each holding the values of that chunk.
C9_ChunksHandedPerTransport ==
    enc.status # "none" =>
        IF enc.transport = "pyarrow"
        THEN /\ Len(enc.handed) = 1
             /\ FromArrow(HandedArrays[1]) = Flatten(src.chunks)
        ELSE /\ Len(enc.handed) = Len(src.chunks)
             /\ \A i \in 1..Len(src.chunks) : FromArrow(HandedArrays[i]) = src.chunks[i]

\* a series of two chunks has gone through the zero-copy path as two pairs
C9_Witness ==
    /\ enc.status = "ok"
    /\ ZeroCopy
    /\ Len(src.chunks) = 2
    /\ Len(enc.handed) = 2

\* C10: decoding the host series that encode returned yields the name, the
\* length, the dtype, the values and the null positions of the source, on the
\* zero-copy path and on the pyarrow path.
C10_SeriesRoundTrip ==
    dec.status = "ok" =>
        LET d == dec.series[1]
            a == Flatten(d.chunks)
            b == Flatten(src.chunks)
        IN  /\ d.name = src.name
            /\ d.dtype = src.dtype
            /\ Len(a) = Len(b)
            /\ \A k \in 1..Len(b) : (a[k] = None) <=> (b[k] = None)
            /\ a = b

\* the series "x" = [1, 2, null, 4], held in two chunks, has been encoded
\* and decoded
C10_Witness ==
    /\ dec.status = "ok"
    /\ src.name = "x"
    /\ src.dtype = "Int64"
    /\ Len(src.chunks) = 2
    /\ Flatten(src.chunks) = << <<1>>, <<2>>, <<>>, <<4>> >>
    /\ Flatten(dec.series[1].chunks) = << <<1>>, <<2>>, <<>>, <<4>> >>

----------------------------------------------------------------------------
(* Properties of DataType encode and decode *)

\* a DataType without what no host type object has a slot for: the reverse
\* mapping handle of a categorical and the ordering of an enumeration
RECURSIVE HostVisible(_)
HostVisible(dt) ==
    CASE dt.tag = "Categorical" -> [dt EXCEPT !.rev_map = None]
      [] dt.tag = "Enum" -> [dt EXCEPT !.ordering = DefaultOrdering]
      [] dt.tag = "List" -> [dt EXCEPT !.inner = HostVisible(dt.inner)]
      [] dt.tag = "Array" -> [dt EXCEPT !.inner = HostVisible(dt.inner)]
      [] dt.tag = "Struct" ->
            [dt EXCEPT !.fields = [i \in 1..Len(dt.fields) |->
                Field(dt.fields[i].name, HostVisible(dt.fields[i].dtype))]]
      [] OTHER -> dt

\* C3: for every DataType built with explicit parameters, decoding the host
\* object that encode produced yields the original DataType.
C3_DataTypeRoundTrip ==
    (dtop.op = "decode" /\ dtop.dt # None /\ dtop.dt[1] \in ExplicitDTypes)
        => /\ dtop.res.status = "ok"
           /\ HostVisible(dtop.res.val) = HostVisible(dtop.dt[1])

\* the identifier of a host type object
Identifier(ob) == IF ob.kind = "class" THEN ob.name ELSE ob.qualname

\* C4: a bare type identifier decodes to the default-parameter variant of its
\* type: list of null, microsecond datetime with no zone, microsecond
\* duration, decimal with no precision and no scale, array of null of size 0,
\* struct with no fields, and every primitive identifier to its primitive.
C4_BareIdentifierDefaults ==
    (dtop.op = "decode" /\ dtop.py[1].kind = "class") =>
        LET name == dtop.py[1].name
            res  == dtop.res
        IN  /\ name = "List" => res = Ok([tag |-> "List", inner |-> [tag |-> "Null"]])
            /\ name = "Datetime" =>
                 res = Ok([tag |-> "Datetime", tu |-> "Microseconds", tz |-> None])
            /\ name = "Duration" => res = Ok([tag |-> "Duration", tu |-> "Microseconds"])
            /\ name = "Decimal" =>
                 res = Ok([tag |-> "Decimal", precision |-> None, scale |-> None])
            /\ name = "Array" =>
                 res = Ok([tag |-> "Array", inner |-> [tag |-> "Null"], size |-> 0])
            /\ name = "Struct" => res = Ok([tag |-> "Struct", fields |-> <<>>])
            /\ name \in Prims => res = Ok([tag |-> name])

\* the bare Datetime class has been decoded
C4_Witness ==
    /\ dtop.op = "decode"
    /\ dtop.py = Some(HostClass("Datetime"))
    /\ dtop.res.status = "ok"

\* C5: a host type object whose identifier is in no table, bare class or
\* parameterized instance, decodes to an unsupported-type error whose message
\* contains the identifier, and to no DataType.
C5_UnknownIdentifierRejected ==
    (dtop.op = "decode" /\ Identifier(dtop.py[1]) \notin ClassNames) =>
        /\ dtop.res.status = "err"
        /\ dtop.res.err.type = "TypeError"
        /\ \E i \in 1..Len(dtop.res.err.msg) : dtop.res.err.msg[i] = Identifier(dtop.py[1])

\* a parameterized instance of the foreign class NotAType has been decoded
C5_Witness ==
    /\ dtop.op = "decode"
    /\ dtop.py = Some(HostInstance("NotAType", [inner |-> HostClass("Int8")]))
    /\ dtop.res.status = "err"

----------------------------------------------------------------------------
(* Properties of DataFrame decode *)

\* the lengths of the columns of the host table last decoded
HostColumnLengths ==
    { Len(Flatten(dec_col.chunks)) :
        dec_col \in { tbl.ob[1].columns[i] : i \in 1..Len(tbl.ob[1].columns) } }

\* C6: decoding a host table whose columns do not all have the length of the
\* first column fails, and never yields a table with columns of differing
\* lengths.
C6_MismatchedLengthsFail ==
    (tbl.status # "none" /\ Cardinality(HostColumnLengths) > 1) =>
        /\ tbl.status = "err"
        /\ tbl.df = None

----------------------------------------------------------------------------
(* Properties of DataFrame decode followed by encode *)

\* the host series a successful encode of the native column s returns
EncodedColumn(s) ==
    EncodeSeriesIn([heap |-> {}, payloads |-> payloads, calls |-> 0],
                   s, host, "ok", 0).result[1]

\* C11: when a host table is decoded and the result encoded, the host table
\* constructor is called once, with as many series as the host table had
\* columns; the i-th series is the encoding of the i-th decoded column and
\* carries the name, the type and the values, in order, of the i-th column
\* of the host table; the value returned is the table the host built.
C11_TableRoundTrip ==
    tenc.status = "ok" =>
        /\ Len(tenc.ctorCalls) = 1
        /\ LET ob     == tbl.ob[1]
               df     == tbl.df[1]
               passed == tenc.ctorCalls[1]
           IN  /\ tenc.df = tbl.df
               /\ Len(passed) = Len(ob.columns)
               /\ \A i \in 1..Len(passed) :
                    /\ passed[i] = EncodedColumn(df.columns[i])
                    /\ passed[i].name = ob.columns[i].name
                    /\ passed[i].dtype = ob.columns[i].dtype
                    /\ Flatten(passed[i].chunks) = Flatten(ob.columns[i].chunks)
               /\ tenc.result = Some(HostDataFrame(passed))

\* a host table of an Int64 column named y and a String column named s went
\* through decode and encode
C11_Witness ==
    /\ tenc.status = "ok"
    /\ Len(tbl.ob[1].columns) = 2
    /\ tbl.ob[1].columns[1].dtype = "Int64"
    /\ tbl.ob[1].columns[2].dtype = "String"
    /\ tenc.result[1].columns[1].name = "y"
    /\ tenc.result[1].columns[2].name = "s"

----------------------------------------------------------------------------
(* Properties of LazyFrame and Expr decode and encode *)

\* the values a decode of this kind may produce from bytes
DecodeDomain(kind) == IF kind = "LazyFrame" THEN Plans ELSE Exprs

\* the last call decoded a host object whose state is bytes that are the
\* serialization of no value of the kind asked for
UndecodableBlob ==
    /\ pop.op = "decode"
    /\ pop.input[1].getstate.outcome = "bytes"
    /\ \A v \in DecodeDomain(pop.kind) : Serialize(v) # pop.input[1].getstate.bytes

\* C12: decoding a plan blob or an expression blob that does not deserialize
\* returns an error, never a value, and the error is not the bare
\* deserializer error: it is the wrapped error whose message says that
\* deserializing failed and that polars versions may be mismatched, followed
\* by the deserializer message.
C12_DeserializeErrorTagged ==
    UndecodableBlob =>
        /\ pop.res.status = "err"
        /\ pop.res.err.type = "PyPolarsErr::Other"
        /\ pop.res.err.msg[1] = "Error when deserializing"
        /\ pop.res.err.msg[3] = "This may be due to mismatched polars versions."
        /\ Len(pop.res.err.msg) > 3
        /\ pop.res # Deserialize(DecodeDomain(pop.kind), pop.input[1].getstate.bytes)

\* a host Expr whose state is the serialization of a plan was decoded as an
\* Expr and the decode returned an error
C12_Witness ==
    /\ UndecodableBlob
    /\ pop.kind = "Expr"
    /\ pop.input[1].getstate.bytes = Serialize([kind |-> "plan", op |-> "scan", arg |-> 2])
    /\ pop.res.status = "err"

\* C15: a successful encode of a plan or an expression returns the instance
\* that was created empty and restored by __setstate__, not what the hook
\* returned, and decoding the returned value gives back the value encoded.
C15_RestoredObjectReturned ==
    (pop.op = "encode" /\ pop.res.status = "ok") =>
        /\ pop.res.val = pop.instance[1]
        /\ pop.res.val # HostSetStateReturn
        /\ ExtractPickled(pop.kind, pop.res.val) = Ok(pop.input[1])

----------------------------------------------------------------------------
(* Properties of the encode of the Unknown family *)

----------------------------------------------------------------------------
(* Properties of failure propagation *)

\* C13: a failure of a host call during the encode of a table is returned
\* to the caller as an error; no table encode ends fatally (a table holds
\* neither the binary-offset variant nor a variant of a disabled feature).
C13_HostFailuresReturned ==
    /\ tenc.hostFailed => tenc.status = "err"
    /\ tenc.status # "panic"

====
